---- MODULE Spec2Model ----
(***************************************************************************)
(* A state-machine model of src/main.py: the PPTXToHeyGenVideo pipeline    *)
(* (retrying HTTP wrapper, slide rasterisation loop, narration generator,  *)
(* job builder, status poller and the convert orchestrator).               *)
(*                                                                         *)
(* The Python call stack is the variable `stack` (innermost frame last),   *)
(* `ctl` says what the innermost frame is doing: "run" (executing),        *)
(* "ret" (a callee has just returned `retval` to it) or "exc" (the         *)
(* exception `exc` is propagating into it).  With an empty stack, "ret"    *)
(* and "exc" are the outcome of the outermost call.  The locals of each    *)
(* function are one record per function (rq, im, ng, cr, wt, cv).          *)
(* External collaborators (transport, rasteriser, language model, remote   *)
(* job) are nondeterministic choices inside the actions.                   *)
(***************************************************************************)
EXTENDS Integers, Sequences, FiniteSets, TLC

\* ------------------------------------------------------------------ bounds
MaxRetry == 4       \* largest retry_times tried on _request_with_retry alone
MaxPolls == 3       \* status queries one _wait_for_video call may issue
MaxSlides == 5      \* largest slide_count given to _pptx_to_heygen_images alone
MaxDeck == 5        \* most slides a stored deck has
MaxTexts == 3       \* longest list given to _generate_speaker_notes alone

\* ------------------------------------------------------- program constants
DefaultRetryTimes == 3      \* self.retry_times = 3
PollInterval == 10          \* self.poll_interval = 10
FallbackChars == 50         \* text[:50]

VARIABLES
    stack,            \* call stack: sequence of function names, innermost last
    ctl,              \* "run" | "ret" | "exc" | "idle"
    retval,           \* value returned by the frame that returned last
    exc,              \* exception in flight / raised last
    retry_times,      \* self.retry_times
    slide_asset_ids,  \* self.slide_asset_ids
    rq,               \* locals and history of _request_with_retry
    wt,               \* locals and history of _wait_for_video
    im,               \* locals and history of _pptx_to_heygen_images
    ng,               \* locals and history of _generate_speaker_notes
    cr,               \* locals of _create_heygen_video
    cv,               \* locals of convert
    tempfiles,        \* the rasteriser's temporary files present on disk
    env,              \* what the external collaborators may do in this run
    hist,             \* one summary per earlier convert call on this object
    self              \* the other attributes the object has: name -> value

vars == <<stack, ctl, retval, exc, retry_times, slide_asset_ids,
          rq, wt, im, ng, cr, cv, tempfiles, env, hist, self>>

\* the locals of every function but those named (and the temporary files,
\* which only the rasterisation loop touches)
exceptRq == <<wt, im, ng, cr, cv, tempfiles, env, hist, self>>
exceptRqWt == <<im, ng, cr, cv, tempfiles, env, hist, self>>
exceptRqIm == <<wt, ng, cr, cv, env, hist, self>>
exceptNg == <<rq, wt, im, cr, cv, tempfiles, env, hist, self>>
exceptRqCr == <<wt, im, ng, cv, tempfiles, env, hist, self>>
exceptCv == <<retry_times, slide_asset_ids, rq, tempfiles, env, hist, self>>

\* ----------------------------------------------------------------- helpers
Top == stack[Len(stack)]
Pop == SubSeq(stack, 1, Len(stack) - 1)

NoValue == [kind |-> "none"]
NoExc == [type |-> "none"]

RECURSIVE Pow2(_)
Pow2(n) == IF n = 0 THEN 1 ELSE 2 * Pow2(n - 1)

\* ------------------------------------------------- _request_with_retry
\* What one requests.request + raise_for_status can do: a 2xx response, a
\* non-2xx response (HTTPError), or a transport failure (ConnectionError /
\* Timeout).  All failures are requests.RequestException.
TransportOutcomes == {"2xx", "HTTPError", "ConnectionError", "Timeout"}

\* The statuses the remote job reports (data["status"]).
DoneStatuses == {"completed", "success"}
FailedStatuses == {"failed", "error"}
PendingStatuses == {"processing", "pending"}
Statuses == DoneStatuses \cup FailedStatuses \cup PendingStatuses

\* The JSON bodies a 2xx response can carry, by endpoint.  `tag` is the
\* identity of the request (which poll, which slide): the server's answer
\* carries it so that a returned URL or id can be traced to its request.
\* data = FALSE is a body without the "data" key.
Bodies(purpose, tag) ==
    CASE purpose = "status" ->
           {[data |-> TRUE, status |-> s, video_url |-> tag] : s \in Statuses}
           \cup {[data |-> FALSE]}
      [] purpose = "create" ->
           {[data |-> TRUE, hasId |-> TRUE, video_id |-> tag],
            [data |-> TRUE, hasId |-> FALSE],
            [data |-> FALSE]}
      [] purpose = "upload" ->
           {[data |-> TRUE, hasId |-> TRUE, id |-> tag],
            [data |-> TRUE, hasId |-> FALSE],
            [data |-> FALSE]}
      [] OTHER -> {[data |-> TRUE]}

\* What the rasteriser and the read of its temporary file can do for a slide.
RenderOutcomes == {"render_error", "missing_file", "read_error", "empty", "ok"}

\* What the chat-completion call can do: return a completion, raise, or
\* return a message whose content is None (.strip() then raises).
LlmOutcomes == {"completion", "padded_completion", "api_error", "no_content"}

\* An optional argument: absent (None) or given with a value.
Absent == [given |-> FALSE]
Given(v) == [given |-> TRUE, value |-> v]

\* The video_title and max_slides arguments a caller may pass to convert.
TitleArgs == {Absent, Given("lecture")}
MaxSlidesArgs == {Absent} \cup {Given(m) : m \in (-1)..(MaxDeck + 1)}

\* What storage.get_file_bytes and the parser give for the deck id: -1 is
\* "no bytes" (None), n >= 0 a deck of n slides.
DeckSizes == (-1)..MaxDeck

\* -------------------------------------------- __init__, _validate_config
\* The (name, attribute) pairs of `required`, in the order of lines 119-124.
Required ==
    <<[key |-> "HEYGEN_API_KEY", attr |-> "heygen_key"],
      [key |-> "OPENAI_API_KEY", attr |-> "openai_key"],
      [key |-> "ASPOSE_CLIENT_ID", attr |-> "aspose_id"],
      [key |-> "ASPOSE_CLIENT_SECRET", attr |-> "aspose_secret"],
      [key |-> "HEYGEN_AVATAR_ID", attr |-> "avatar_id"],
      [key |-> "HEYGEN_VOICE_ID", attr |-> "voice_id"]>>

Keys == {Required[i].key : i \in 1..Len(Required)}

\* os.getenv(name) for each name: None (Absent), the empty string or a value.
OsEnvs == [Keys -> {Absent, Given(""), Given("secret")}]

\* The process environment with every required key set.
FullEnv == [k \in Keys |-> Given("secret")]

\* if not value
Falsy(v) == ~v.given \/ v.value = ""

\* An object without attributes.
NoAttrs == [a \in {} |-> Absent]

\* Lines 86-92: self.storage and the four credentials read from the environment.
Credentials(getenv) ==
    [storage |-> "storage_manager",
     heygen_key |-> getenv["HEYGEN_API_KEY"],
     openai_key |-> getenv["OPENAI_API_KEY"],
     aspose_id |-> getenv["ASPOSE_CLIENT_ID"],
     aspose_secret |-> getenv["ASPOSE_CLIENT_SECRET"]]

\* Lines 96-111 and 113: the clients and the video settings.  retry_times
\* and slide_asset_ids (lines 112, 114) are the variables of those names.
ClientsAndSettings(getenv) ==
    [openai_client |-> [api_key |-> getenv["OPENAI_API_KEY"]],
     heygen_headers |-> [x_api_key |-> getenv["HEYGEN_API_KEY"]],
     aspose_slides_api |-> [app_sid |-> getenv["ASPOSE_CLIENT_ID"],
                            app_key |-> getenv["ASPOSE_CLIENT_SECRET"]],
     avatar_id |-> getenv["HEYGEN_AVATAR_ID"],
     voice_id |-> getenv["HEYGEN_VOICE_ID"],
     video_size |-> [width |-> 1280, height |-> 720],
     poll_interval |-> PollInterval]

\* The attributes of an object on which every line of __init__ has run.
Constructed(getenv) == Credentials(getenv) @@ ClientsAndSettings(getenv)

\* The least element of a non-empty set of integers.
Least(S) == CHOOSE i \in S : \A j \in S : i <= j

\* _validate_config (lines 116-128) on an object with the attributes obj.
\* The list `required` is built first, reading the six attributes in order:
\* reading one the object does not have raises AttributeError.  Then the
\* loop raises ValueError for the first pair whose value is falsy.
ValidateConfig(obj) ==
    LET unset == {i \in 1..Len(Required) : Required[i].attr \notin DOMAIN obj}
        falsy == {i \in 1..Len(Required) \ unset : Falsy(obj[Required[i].attr])} IN
    IF unset # {}
    THEN [type |-> "AttributeError", msg |-> Required[Least(unset)].attr]
    ELSE IF falsy # {}
    THEN [type |-> "ValueError", msg |-> Required[Least(falsy)].key]
    ELSE NoExc

\* The collaborators of a run: which outcomes the transport, the platform,
\* the rasteriser, the language model and the remote job may produce; its
\* caller: how many convert calls it makes on the object, with which
\* arguments, on which stored decks; and the process environment.
EnvAny == [transport |-> TransportOutcomes, malformed |-> TRUE,
           render |-> RenderOutcomes, llm |-> LlmOutcomes,
           statuses |-> Statuses, calls |-> 1,
           titles |-> TitleArgs, max_slides |-> MaxSlidesArgs, decks |-> DeckSizes,
           getenv |-> FullEnv]

AllowedBody(b) ==
    /\ env.malformed \/ (b.data /\ ("hasId" \in DOMAIN b => b.hasId))
    /\ (b.data /\ "status" \in DOMAIN b) => b.status \in env.statuses

RqIdle == [st |-> "idle", purpose |-> "raw", tag |-> [none |-> 0], attempt |-> 0,
           outcomes |-> <<>>, slept |-> <<>>]

\* First statement of a call: for attempt in range(self.retry_times)
RqEnter(purpose, tag) ==
    [RqIdle EXCEPT !.st = "running", !.purpose = purpose, !.tag = tag]

\* if attempt == self.retry_times - 1: raise
IsLastAttempt_offByOne(attempt, n) == attempt = n
IsLastAttempt_never(attempt, n) == FALSE
IsLastAttempt(attempt, n) == attempt = n - 1

\* time.sleep(2 ** attempt)
Backoff_product(attempt) == 2 * attempt
Backoff(attempt) == Pow2(attempt)

\* One iteration of the for loop (lines 132-141).
Attempt ==
    /\ stack # <<>> /\ Top = "request" /\ ctl = "run"
    /\ rq.attempt < retry_times
    /\ \E o \in env.transport :
         LET a == rq.attempt
             log == Append(rq.outcomes, o) IN
         IF o = "2xx"
         THEN \E b \in {x \in Bodies(rq.purpose, rq.tag) : AllowedBody(x)} :
                /\ rq' = [rq EXCEPT !.st = "returned", !.outcomes = log]
                /\ retval' = [kind |-> "response", body |-> b, attempt |-> a + 1]
                /\ stack' = Pop /\ ctl' = "ret"
                /\ UNCHANGED exc
         ELSE IF IsLastAttempt(a, retry_times)
              THEN /\ rq' = [rq EXCEPT !.st = "raised", !.outcomes = log]
                   /\ exc' = [type |-> o, attempt |-> a + 1]
                   /\ stack' = Pop /\ ctl' = "exc"
                   /\ UNCHANGED retval
              ELSE /\ rq' = [rq EXCEPT !.outcomes = log,
                                       !.slept = Append(@, Backoff(a)),
                                       !.attempt = a + 1]
                   /\ UNCHANGED <<stack, ctl, retval, exc>>
    /\ UNCHANGED <<retry_times, slide_asset_ids, exceptRq>>

\* Line 142: the loop ran out without returning or raising.
RetriesExhausted ==
    /\ stack # <<>> /\ Top = "request" /\ ctl = "run"
    /\ rq.attempt >= retry_times
    /\ rq' = [rq EXCEPT !.st = "raised"]
    /\ exc' = [type |-> "RuntimeError", msg |-> "retries exhausted"]
    /\ stack' = Pop /\ ctl' = "exc"
    /\ UNCHANGED <<retval, retry_times, slide_asset_ids, exceptRq>>

\* ----------------------------------------------------- _wait_for_video
WtIdle == [st |-> "idle", polls |-> 0, statuses |-> <<>>, slept |-> <<>>]

\* if status in ("completed", "success")
IsDone_completedOnly(status) == status = "completed"
IsDone(status) == status \in {"completed", "success"}

\* elif status in ("failed", "error")
IsFailed_failedOnly(status) == status = "failed"
IsFailed(status) == status \in {"failed", "error"}

\* Lines 257-263: top of the while loop, the status query.
WaitQuery ==
    /\ stack # <<>> /\ Top = "wait" /\ ctl = "run"
    /\ wt.polls < MaxPolls
    /\ wt' = [wt EXCEPT !.polls = @ + 1]
    /\ rq' = RqEnter("status", [poll |-> wt.polls + 1])
    /\ stack' = Append(stack, "request")
    /\ UNCHANGED <<ctl, retval, exc, retry_times, slide_asset_ids, exceptRqWt>>

\* Lines 264-273: the response of the query is read.
WaitStatus ==
    /\ stack # <<>> /\ Top = "wait" /\ ctl = "ret"
    /\ rq' = RqIdle
    /\ LET body == retval.body IN
       IF ~body.data
       THEN \* response.json()["data"] raises KeyError
            /\ wt' = [wt EXCEPT !.st = "raised"]
            /\ exc' = [type |-> "KeyError", msg |-> "data"]
            /\ stack' = Pop /\ ctl' = "exc"
            /\ UNCHANGED retval
       ELSE LET seen == Append(wt.statuses, body.status) IN
            IF IsDone(body.status)
            THEN /\ wt' = [wt EXCEPT !.st = "returned", !.statuses = seen]
                 /\ retval' = [kind |-> "video_url", url |-> body.video_url]
                 /\ stack' = Pop /\ ctl' = "ret"
                 /\ UNCHANGED exc
            ELSE IF IsFailed(body.status)
            THEN /\ wt' = [wt EXCEPT !.st = "raised", !.statuses = seen]
                 /\ exc' = [type |-> "RuntimeError", msg |-> "video generation failed"]
                 /\ stack' = Pop /\ ctl' = "exc"
                 /\ UNCHANGED retval
            ELSE /\ wt' = [wt EXCEPT !.statuses = seen,
                                     !.slept = Append(@, PollInterval)]
                 /\ ctl' = "run"
                 /\ UNCHANGED <<stack, retval, exc>>
    /\ UNCHANGED <<retry_times, slide_asset_ids, exceptRqWt>>

\* ------------------------------- _upload_to_heygen, _pptx_to_heygen_images
\* before: the accumulator when the call started; temp: temp_file_path (0 is
\* None); attempted: the indices whose render was started, in order; failed:
\* the indices whose iteration ended in the except clause; made: the slides
\* whose render left a temporary file on disk; removed: the paths os.remove
\* was called with.
ImIdle == [st |-> "idle", call |-> 0, slide_count |-> 0, slide_idx |-> 1, temp |-> 0,
           before |-> <<>>, attempted |-> <<>>, failed |-> {},
           made |-> {}, removed |-> {}]

ImEnter(call, n, acc) ==
    [ImIdle EXCEPT !.st = "running", !.call = call, !.slide_count = n, !.before = acc]

\* The handle the platform gives the image of slide i uploaded in call c.
Handle(c, i) == [call |-> c, slide |-> i]

\* The loop goes on with the next index after the except / finally clauses.
AfterFailure_abort(idx, n) == n + 1
AfterFailure(idx, n) == idx + 1

\* finally: if temp_file_path and os.path.exists(temp_file_path): os.remove
Cleanup_skipped(temp, files) == files
Cleanup(temp, files) == IF temp # 0 /\ temp \in files THEN files \ {temp} ELSE files

\* The paths the finally clause calls os.remove with.
Removals(temp, files) == files \ Cleanup(temp, files)

\* Lines 167-182: one slide up to the call of _upload_to_heygen; a failure
\* before the upload runs the except and finally clauses (184-189).
RenderSlide ==
    /\ stack # <<>> /\ Top = "images" /\ ctl = "run"
    /\ im.slide_idx <= im.slide_count
    /\ \E r \in env.render :
         LET i == im.slide_idx
             path == IF r = "render_error" THEN 0 ELSE i
             disk == IF r \in {"render_error", "missing_file"}
                     THEN tempfiles ELSE tempfiles \cup {i}
             tried == Append(im.attempted, i) IN
         IF r = "ok"
         THEN /\ im' = [im EXCEPT !.temp = path, !.attempted = tried,
                                  !.made = @ \cup (disk \ tempfiles)]
              /\ tempfiles' = disk
              /\ stack' = Append(stack, "upload")
              /\ UNCHANGED <<ctl, exc>>
         ELSE /\ im' = [im EXCEPT !.temp = 0, !.attempted = tried,
                                  !.failed = @ \cup {i},
                                  !.made = @ \cup (disk \ tempfiles),
                                  !.removed = @ \cup Removals(path, disk),
                                  !.slide_idx = AfterFailure(i, im.slide_count)]
              /\ tempfiles' = Cleanup(path, disk)
              /\ exc' = NoExc
              /\ UNCHANGED <<stack, ctl>>
    /\ UNCHANGED <<retval, retry_times, slide_asset_ids, rq, exceptRqIm>>

\* Lines 147-156 of _upload_to_heygen: the POST through the retry wrapper.
UploadCall ==
    /\ stack # <<>> /\ Top = "upload" /\ ctl = "run"
    /\ rq' = RqEnter("upload", Handle(im.call, im.slide_idx))
    /\ stack' = Append(stack, "request")
    /\ UNCHANGED <<ctl, retval, exc, retry_times, slide_asset_ids, exceptRq>>

\* Lines 157-162: the asset id is read from the response body.
UploadReturn ==
    /\ stack # <<>> /\ Top = "upload" /\ ctl = "ret"
    /\ rq' = RqIdle
    /\ stack' = Pop
    /\ LET body == retval.body IN
       IF ~body.data
       THEN /\ exc' = [type |-> "KeyError", msg |-> "data"]
            /\ ctl' = "exc" /\ UNCHANGED retval
       ELSE IF ~body.hasId
       THEN /\ exc' = [type |-> "RuntimeError", msg |-> "no asset id"]
            /\ ctl' = "exc" /\ UNCHANGED retval
       ELSE /\ retval' = [kind |-> "asset_id", id |-> body.id]
            /\ ctl' = "ret" /\ UNCHANGED exc
    /\ UNCHANGED <<retry_times, slide_asset_ids, exceptRq>>

\* Line 183 and the finally clause: the upload returned an asset id.
SlideUploaded ==
    /\ stack # <<>> /\ Top = "images" /\ ctl = "ret"
    /\ slide_asset_ids' = Append(slide_asset_ids, retval.id)
    /\ tempfiles' = Cleanup(im.temp, tempfiles)
    /\ im' = [im EXCEPT !.temp = 0, !.slide_idx = @ + 1,
                        !.removed = @ \cup Removals(im.temp, tempfiles)]
    /\ ctl' = "run"
    /\ UNCHANGED <<stack, retval, exc, retry_times, rq, exceptRqIm>>

\* Lines 184-189: the upload raised; except Exception, then finally.
SlideFailed ==
    /\ stack # <<>> /\ Top = "images" /\ ctl = "exc"
    /\ tempfiles' = Cleanup(im.temp, tempfiles)
    /\ im' = [im EXCEPT !.temp = 0, !.failed = @ \cup {im.slide_idx},
                        !.removed = @ \cup Removals(im.temp, tempfiles),
                        !.slide_idx = AfterFailure(im.slide_idx, im.slide_count)]
    /\ exc' = NoExc
    /\ ctl' = "run"
    /\ UNCHANGED <<stack, retval, retry_times, slide_asset_ids, rq, exceptRqIm>>

\* The for loop of line 167 is over: the method returns None.
ImagesReturn ==
    /\ stack # <<>> /\ Top = "images" /\ ctl = "run"
    /\ im.slide_idx > im.slide_count
    /\ im' = [im EXCEPT !.st = "returned"]
    /\ retval' = NoValue
    /\ stack' = Pop /\ ctl' = "ret"
    /\ UNCHANGED <<exc, retry_times, slide_asset_ids, rq, exceptRqIm, tempfiles>>

\* ----------------------------------------------- _generate_speaker_notes
\* A Python str is a sequence of one-character strings; the fixed pieces of
\* an f-string template are single tokens.
Whitespace == {" ", "\n"}

Min(a, b) == IF a < b THEN a ELSE b

\* str(idx) for the small positions the model reaches
Digits == <<"1", "2", "3", "4", "5", "6", "7", "8", "9">>
Str(idx) == Digits[idx]

RECURSIVE LStrip(_)
LStrip(t) == IF t # <<>> /\ t[1] \in Whitespace THEN LStrip(Tail(t)) ELSE t

RECURSIVE RStrip(_)
RStrip(t) ==
    IF t # <<>> /\ t[Len(t)] \in Whitespace
    THEN RStrip(SubSeq(t, 1, Len(t) - 1)) ELSE t

\* str.strip()
Strip(t) == RStrip(LStrip(t))

\* text[:n]
Take(t, n) == SubSeq(t, 1, Min(n, Len(t)))

\* if not text.strip()
IsBlank_noStrip(text) == text = <<>>
IsBlank_never(text) == FALSE
IsBlank(text) == Strip(text) = <<>>

\* f"这是第{idx}张幻灯片，主要展示图片内容。"
Placeholder(idx) == <<"slide#", Str(idx), ":shows-an-image">>

\* f"第{idx}张幻灯片内容：{text[:50]}..."
Fallback(idx, text) ==
    <<"slide#", Str(idx), ":content:">> \o Take(text, FallbackChars) \o <<"...">>

\* response.choices[0].message.content: the narration the language model
\* writes for a prompt; it embeds the prompt so that it can be traced.
Completion(o, text) ==
    IF o = "padded_completion"
    THEN <<" ", "narration:">> \o text \o <<"\n">>
    ELSE <<"narration:">> \o text

\* llm: one record per chat-completion call, in the order issued.
NgIdle == [st |-> "idle", texts |-> <<>>, idx |-> 1, notes |-> <<>>, llm |-> <<>>]

NgEnter(texts) == [NgIdle EXCEPT !.st = "running", !.texts = texts]

\* Lines 195-213: one iteration of the for loop.
NoteStep ==
    /\ stack # <<>> /\ Top = "notes" /\ ctl = "run"
    /\ ng.idx <= Len(ng.texts)
    /\ LET idx == ng.idx
           text == ng.texts[idx] IN
       IF IsBlank(text)
       THEN ng' = [ng EXCEPT !.notes = Append(@, Placeholder(idx)), !.idx = idx + 1]
       ELSE \E o \in env.llm :
              LET ok == o \in {"completion", "padded_completion"}
                  content == IF ok THEN Completion(o, text) ELSE <<>>
                  call == [pos |-> idx, prompt |-> text, ok |-> ok, content |-> content]
                  note == IF ok THEN Strip(content) ELSE Fallback(idx, text) IN
              ng' = [ng EXCEPT !.notes = Append(@, note), !.idx = idx + 1,
                               !.llm = Append(@, call)]
    /\ UNCHANGED <<stack, ctl, retval, exc, retry_times, slide_asset_ids, exceptNg>>

\* Line 214: return notes
NotesReturn ==
    /\ stack # <<>> /\ Top = "notes" /\ ctl = "run"
    /\ ng.idx > Len(ng.texts)
    /\ ng' = [ng EXCEPT !.st = "returned"]
    /\ retval' = [kind |-> "notes", notes |-> ng.notes]
    /\ stack' = Pop /\ ctl' = "ret"
    /\ UNCHANGED <<exc, retry_times, slide_asset_ids, exceptNg>>

\* ------------------------------------------------- _create_heygen_video
\* if idx < len(self.slide_asset_ids)   (idx is 0-based)
HasAsset_dropLast(idx, n) == idx + 1 < n
HasAsset(idx, n) == idx < n

\* Lines 221-233: the scene of the note at 0-based position idx.
Scene(idx, note, assets) ==
    [character |-> [type |-> "talking_photo", talking_photo_id |-> "avatar_id",
                    scale |-> "0.33", offset |-> [x |-> "0.42", y |-> "0.42"]],
     voice |-> [type |-> "text", input_text |-> note, voice_id |-> "voice_id"],
     background |-> IF HasAsset(idx, Len(assets))
                    THEN [type |-> "image", image_asset_id |-> assets[idx + 1]]
                    ELSE [type |-> "color", value |-> "#FFFFFF"]]

\* Lines 219-241: the payload of the job.
Payload(notes, title, assets) ==
    [video_inputs |-> [i \in 1..Len(notes) |-> Scene(i - 1, notes[i], assets)],
     dimension |-> [width |-> 1280, height |-> 720],
     title |-> title]

CrIdle == [st |-> "idle", job |-> 0, notes |-> <<>>, title |-> "", built |-> FALSE,
           payload |-> Payload(<<>>, "", <<>>)]

CrEnter(job, notes, title) ==
    [CrIdle EXCEPT !.st = "running", !.job = job, !.notes = notes, !.title = title]

\* Lines 219-247: build the scenes and POST the job through the retry wrapper.
CreateSubmit ==
    /\ stack # <<>> /\ Top = "create" /\ ctl = "run"
    /\ cr' = [cr EXCEPT !.built = TRUE,
                        !.payload = Payload(cr.notes, cr.title, slide_asset_ids)]
    /\ rq' = RqEnter("create", [job |-> cr.job])
    /\ stack' = Append(stack, "request")
    /\ UNCHANGED <<ctl, retval, exc, retry_times, slide_asset_ids, exceptRqCr>>

\* Lines 248-252: the video id is read from the response body.
CreateReturn ==
    /\ stack # <<>> /\ Top = "create" /\ ctl = "ret"
    /\ rq' = RqIdle
    /\ stack' = Pop
    /\ LET body == retval.body IN
       IF ~body.data
       THEN /\ exc' = [type |-> "KeyError", msg |-> "data"]
            /\ cr' = [cr EXCEPT !.st = "raised"]
            /\ ctl' = "exc" /\ UNCHANGED retval
       ELSE IF ~body.hasId
       THEN /\ exc' = [type |-> "RuntimeError", msg |-> "no video id"]
            /\ cr' = [cr EXCEPT !.st = "raised"]
            /\ ctl' = "exc" /\ UNCHANGED retval
       ELSE /\ retval' = [kind |-> "video_id", id |-> body.video_id]
            /\ cr' = [cr EXCEPT !.st = "returned"]
            /\ ctl' = "ret" /\ UNCHANGED exc
    /\ UNCHANGED <<retry_times, slide_asset_ids, exceptRqCr>>

\* -------------------------------------------------------------- convert
\* len(slides[:max_slides]) for a list of n slides, guarded by
\* `if max_slides:` (None and 0 are both falsy; a negative bound drops
\* slides from the end).
Truncate_ignored(n, max_slides) == n
Truncate(n, max_slides) ==
    IF ~max_slides.given \/ max_slides.value = 0 THEN n
    ELSE IF max_slides.value > 0 THEN Min(max_slides.value, n)
    ELSE IF n + max_slides.value > 0 THEN n + max_slides.value ELSE 0

\* final_title = video_title or f"PPTX转换视频_{pptx_public_id}"
FinalTitle(title, deck_id) ==
    IF title.given /\ title.value # "" THEN title.value
    ELSE "PPTX-video_" \o deck_id

\* slide_texts[:len(self.slide_asset_ids)]
NarrationInputs(slide_texts, assets) == Take(slide_texts, Len(assets))

\* The raw text of slide i of the stored deck.
SlideText(i) == <<"text-of-slide-", Str(i)>>
DeckOf(n) == [i \in 1..n |-> SlideText(i)]

CvIdle == [st |-> "idle", call |-> 0, step |-> "none", deck_id |-> "deck_123",
           title |-> Absent, max_slides |-> Absent, deck |-> <<>>,
           slide_texts |-> <<>>, before |-> <<>>, narrated |-> <<>>,
           speaker_notes |-> <<>>, final_title |-> "", video_id |-> [job |-> 0]]

\* What is kept of a finished call.
Summary ==
    [call |-> cv.call, title |-> cv.title, max_slides |-> cv.max_slides,
     deck |-> cv.deck, failed |-> im.failed, outcome |-> cv.st,
     result |-> IF cv.st = "returned" THEN retval ELSE NoValue]

\* Lines 277-297: fetch, parse, truncate, extract the texts and call
\* _pptx_to_heygen_images.  The caller starts a call when none is running.
ConvertCall ==
    /\ stack = <<>> /\ cv.st # "running" /\ cv.call < env.calls
    /\ hist' = IF cv.st = "idle" THEN hist ELSE Append(hist, Summary)
    /\ rq' = RqIdle /\ wt' = WtIdle /\ ng' = NgIdle /\ cr' = CrIdle
    /\ retval' = NoValue
    /\ \E title \in env.titles, max_slides \in env.max_slides, n \in env.decks :
         LET found == n >= 0          \* n = -1: get_file_bytes returned None
             deck == IF found THEN DeckOf(n) ELSE <<>>
             kept == Truncate(Len(deck), max_slides)
             base == [CvIdle EXCEPT !.call = cv.call + 1, !.title = title,
                                    !.max_slides = max_slides, !.deck = deck,
                                    !.before = slide_asset_ids] IN
         IF ~found
         THEN /\ cv' = [base EXCEPT !.st = "raised"]
              /\ exc' = [type |-> "FileNotFoundError", msg |-> "deck not found"]
              /\ ctl' = "exc" /\ im' = ImIdle /\ UNCHANGED stack
         ELSE IF deck = <<>>
         THEN /\ cv' = [base EXCEPT !.st = "raised"]
              /\ exc' = [type |-> "ValueError", msg |-> "deck has no slides"]
              /\ ctl' = "exc" /\ im' = ImIdle /\ UNCHANGED stack
         ELSE /\ cv' = [base EXCEPT !.st = "running", !.step = "images",
                                    !.slide_texts = Take(deck, kept)]
              /\ im' = ImEnter(cv.call + 1, kept, slide_asset_ids)
              /\ stack' = <<"convert", "images">>
              /\ ctl' = "run" /\ exc' = NoExc
    /\ UNCHANGED <<retry_times, slide_asset_ids, tempfiles, env, self>>

\* Lines 298-302: the accumulator is tested, then the narrations are asked
\* for, one per text up to the number of assets held.
ConvertAfterImages ==
    /\ stack # <<>> /\ Top = "convert" /\ ctl = "ret" /\ cv.step = "images"
    /\ IF slide_asset_ids = <<>>
       THEN /\ cv' = [cv EXCEPT !.st = "raised"]
            /\ exc' = [type |-> "RuntimeError", msg |-> "no slides converted"]
            /\ stack' = Pop /\ ctl' = "exc"
            /\ UNCHANGED ng
       ELSE LET texts == NarrationInputs(cv.slide_texts, slide_asset_ids) IN
            /\ cv' = [cv EXCEPT !.step = "notes", !.narrated = texts]
            /\ ng' = NgEnter(texts)
            /\ stack' = Append(stack, "notes") /\ ctl' = "run"
            /\ UNCHANGED exc
    /\ UNCHANGED <<retval, wt, im, cr, exceptCv>>

\* Lines 305-306: the title is chosen and the job is created.
ConvertAfterNotes ==
    /\ stack # <<>> /\ Top = "convert" /\ ctl = "ret" /\ cv.step = "notes"
    /\ LET final_title == FinalTitle(cv.title, cv.deck_id) IN
       /\ cv' = [cv EXCEPT !.step = "create", !.speaker_notes = retval.notes,
                           !.final_title = final_title]
       /\ cr' = CrEnter(cv.call, retval.notes, final_title)
    /\ stack' = Append(stack, "create") /\ ctl' = "run"
    /\ UNCHANGED <<retval, exc, wt, im, ng, exceptCv>>

\* Line 307: the job id is kept and the wait begins.
ConvertAfterCreate ==
    /\ stack # <<>> /\ Top = "convert" /\ ctl = "ret" /\ cv.step = "create"
    /\ cv' = [cv EXCEPT !.step = "wait", !.video_id = retval.id]
    /\ wt' = [WtIdle EXCEPT !.st = "running"]
    /\ stack' = Append(stack, "wait") /\ ctl' = "run"
    /\ UNCHANGED <<retval, exc, im, ng, cr, exceptCv>>

\* Lines 310-315: the result is returned.
ConvertAfterWait ==
    /\ stack # <<>> /\ Top = "convert" /\ ctl = "ret" /\ cv.step = "wait"
    /\ cv' = [cv EXCEPT !.st = "returned", !.step = "done"]
    /\ retval' = [kind |-> "result", video_id |-> cv.video_id,
                  video_url |-> retval.url,
                  slides_processed |-> Len(cv.speaker_notes),
                  title |-> cv.final_title]
    /\ stack' = Pop /\ ctl' = "ret"
    /\ UNCHANGED <<exc, wt, im, ng, cr, exceptCv>>


\* ------------------------------------------------ exception propagation
\* Methods that have no handler around their calls: an exception arriving
\* from a callee leaves them too.
NoHandler == {"wait", "upload", "create", "convert"}

Unwind ==
    /\ stack # <<>> /\ ctl = "exc" /\ Top \in NoHandler
    /\ stack' = Pop
    /\ rq' = RqIdle
    /\ wt' = IF Top = "wait" THEN [wt EXCEPT !.st = "raised"] ELSE wt
    /\ cr' = IF Top = "create" THEN [cr EXCEPT !.st = "raised"] ELSE cr
    /\ cv' = IF Top = "convert" THEN [cv EXCEPT !.st = "raised"] ELSE cv
    /\ UNCHANGED <<ctl, retval, exc, retry_times, slide_asset_ids, im, ng, tempfiles,
                   env, hist, self>>

\* ------------------------------------------------------------- __init__
\* PPTXToHeyGenVideo(storage_manager), lines 84-114: the credentials are
\* read, _validate_config is called on the object as it is at line 93, and
\* only if it raises nothing are the clients and the settings assigned.
Construct ==
    /\ stack = <<>> /\ ctl = "idle" /\ self = NoAttrs
    /\ LET obj == Credentials(env.getenv)
           err == ValidateConfig(obj) IN
       IF err # NoExc
       THEN /\ self' = obj
            /\ exc' = err /\ ctl' = "exc"
            /\ UNCHANGED <<retry_times, slide_asset_ids>>
       ELSE /\ self' = obj @@ ClientsAndSettings(env.getenv)
            /\ retry_times' = DefaultRetryTimes
            /\ slide_asset_ids' = <<>>
            /\ exc' = NoExc /\ ctl' = "ret"
    /\ UNCHANGED <<stack, retval, rq, wt, im, ng, cr, cv, tempfiles, env, hist>>

\* ------------------------------------------------------------ SpecRetry
\* _request_with_retry called on its own, for every retry_times 0..MaxRetry.
InitRetry ==
    /\ stack = <<"request">> /\ ctl = "run"
    /\ retval = NoValue /\ exc = NoExc
    /\ retry_times \in 0..MaxRetry
    /\ slide_asset_ids = <<>>
    /\ rq = RqEnter("raw", [none |-> 0])
    /\ wt = WtIdle /\ im = ImIdle /\ ng = NgIdle /\ cr = CrIdle /\ cv = CvIdle
    /\ tempfiles = {} /\ env = EnvAny /\ hist = <<>>
    /\ self = Constructed(env.getenv)

NextRetry == Attempt \/ RetriesExhausted

SpecRetry == InitRetry /\ [][NextRetry]_vars

\* C1: with retry_times = N >= 1, attempts are issued one after another until
\* the first success; a success at attempt k <= N returns that attempt's
\* response after exactly k attempts; N failures raise the N-th attempt's
\* failure after exactly N attempts, and there is never an (N+1)-th attempt.
C1_RetryUntilFirstSuccess ==
    (retry_times >= 1 /\ rq.st # "idle") =>
        LET k == Len(rq.outcomes) IN
        /\ k <= retry_times
        /\ \A i \in 1..(k - 1) : rq.outcomes[i] # "2xx"
        /\ rq.st = "running" => /\ k < retry_times
                                /\ \A i \in 1..k : rq.outcomes[i] # "2xx"
        /\ rq.st = "returned" => /\ k >= 1 /\ rq.outcomes[k] = "2xx"
                                 /\ ctl = "ret"
                                 /\ retval.kind = "response"
                                 /\ retval.attempt = k
        /\ rq.st = "raised" => /\ k = retry_times
                               /\ rq.outcomes[k] # "2xx"
                               /\ ctl = "exc"
                               /\ exc = [type |-> rq.outcomes[k], attempt |-> k]

\* Fails twice, then succeeds on the third of three attempts.
C1_Witness ==
    /\ retry_times = 3 /\ rq.st = "returned"
    /\ rq.outcomes = <<"ConnectionError", "HTTPError", "2xx">>
    /\ retval.attempt = 3

\* C2: the waits are exactly 1, 2, 4, ... (2^a after failed attempt a, 0-based,
\* for a < N-1): one wait after every failed attempt that is not the last
\* allowed one, none after a success, none after the final failure.
C2_BackoffSchedule ==
    (retry_times >= 1 /\ rq.st # "idle") =>
        LET w == rq.slept
            k == Len(rq.outcomes) IN
        /\ Len(w) >= 1 => w[1] = 1
        /\ \A i \in 1..(Len(w) - 1) : w[i + 1] = 2 * w[i]
        /\ rq.st = "running" => Len(w) = k
        /\ rq.st = "returned" => Len(w) = k - 1
        /\ rq.st = "raised" => Len(w) = retry_times - 1

\* Four attempts all fail: waits 1, 2, 4 and no wait before the raise.
C2_Witness ==
    /\ retry_times = 4 /\ rq.st = "raised"
    /\ rq.slept = <<1, 2, 4>>

\* ------------------------------------------------------------- SpecWait
\* _wait_for_video called on a constructed pipeline object.
InitWait ==
    /\ stack = <<"wait">> /\ ctl = "run"
    /\ retval = NoValue /\ exc = NoExc
    /\ retry_times = DefaultRetryTimes
    /\ slide_asset_ids = <<>>
    /\ rq = RqIdle
    /\ wt = [WtIdle EXCEPT !.st = "running"]
    /\ im = ImIdle /\ ng = NgIdle /\ cr = CrIdle /\ cv = CvIdle
    /\ tempfiles = {} /\ env = EnvAny /\ hist = <<>>
    /\ self = Constructed(env.getenv)

NextWait == WaitQuery \/ Attempt \/ WaitStatus \/ Unwind

SpecWait == InitWait /\ [][NextWait]_vars

\* C3: _wait_for_video stops at the first status in {completed, success,
\* failed, error}: at the k-th poll it returns that poll's video_url
\* (completed / success) or raises the generation-failed error (failed /
\* error), after exactly k status queries and exactly k-1 sleeps of
\* poll_interval, one after each non-terminal poll, none after the terminal.
C3_StopsAtFirstTerminalStatus ==
    LET k == Len(wt.statuses)
        terminal == DoneStatuses \cup FailedStatuses
        byStatus == wt.st = "returned" \/
                    (wt.st = "raised" /\ exc = [type |-> "RuntimeError",
                                                msg |-> "video generation failed"])
    IN
    /\ \A i \in 1..(k - 1) : wt.statuses[i] \notin terminal
    /\ \A i \in 1..Len(wt.slept) : wt.slept[i] = 10
    /\ wt.st = "running" => /\ \A i \in 1..k : wt.statuses[i] \notin terminal
                            /\ Len(wt.slept) = k
    /\ byStatus => /\ k >= 1
                   /\ wt.statuses[k] \in terminal
                   /\ wt.polls = k
                   /\ Len(wt.slept) = k - 1
                   /\ stack = <<>>
    /\ wt.st = "returned" => /\ wt.statuses[k] \in DoneStatuses
                             /\ ctl = "ret"
                             /\ retval = [kind |-> "video_url", url |-> [poll |-> k]]
    /\ (wt.st = "raised" /\ k >= 1 /\ wt.statuses[k] \in terminal) =>
            /\ wt.statuses[k] \in FailedStatuses
            /\ ctl = "exc"
            /\ exc = [type |-> "RuntimeError", msg |-> "video generation failed"]

\* [processing, processing, completed]: returns after 3 polls and 2 sleeps.
C3_Witness ==
    /\ wt.st = "returned"
    /\ wt.statuses = <<"processing", "processing", "completed">>
    /\ wt.polls = 3 /\ wt.slept = <<10, 10>>
    /\ retval.url = [poll |-> 3]

\* --------------------------------------------------------- SpecWaitLive
\* _wait_for_video as in SpecWait, on an interpreter that keeps running:
\* every request returns or fails (timeout=90) and every sleep ends, so a
\* step that is possible is eventually taken.
SpecWaitLive == InitWait /\ [][NextWait]_vars /\ WF_vars(NextWait)

\* No status reported so far is one of completed, success, failed, error.
NoTerminalStatus ==
    \A i \in 1..Len(wt.statuses) :
        wt.statuses[i] \notin {"completed", "success", "failed", "error"}

\* MaxPolls queries were answered, none with a terminal status, and the loop
\* is at its top again.
StillPollingAtCap ==
    /\ wt.st = "running" /\ stack = <<"wait">> /\ ctl = "run"
    /\ wt.polls = MaxPolls /\ Len(wt.statuses) = MaxPolls /\ NoTerminalStatus

\* C18: the poll loop ends only by a terminal status or a failed query.
\* Every run either ends, or is still polling after MaxPolls non-terminal
\* reports; once a terminal status is reported the wait is over; a status
\* query that exhausts its retry_times attempts ends the wait with that
\* transport failure while the job is still pending; and as long as the
\* reports are non-terminal the loop sleeps and queries again, with no
\* deadline or poll limit of its own.
C18_PollLoopTermination ==
    /\ <>(wt.st # "running" \/ StillPollingAtCap)
    /\ [](~NoTerminalStatus => wt.st \in {"returned", "raised"})
    /\ []((wt.st = "raised" /\ exc.type \in {"HTTPError", "ConnectionError", "Timeout"}) =>
            (exc.attempt = retry_times /\ NoTerminalStatus
             /\ stack = <<>> /\ ctl = "exc"))
    /\ [](wt.st = "raised" =>
            \/ exc.type \in {"HTTPError", "ConnectionError", "Timeout", "KeyError"}
            \/ exc = [type |-> "RuntimeError", msg |-> "video generation failed"])
    /\ []((wt.st = "running" /\ stack = <<"wait">> /\ ctl = "run") =>
            /\ NoTerminalStatus
            /\ Len(wt.statuses) = wt.polls /\ Len(wt.slept) = wt.polls
            /\ wt.polls < MaxPolls => ENABLED WaitQuery)

\* Three queries answered processing, pending, processing: the loop has
\* slept three times and is about to query again.
C18_Witness ==
    /\ wt.st = "running" /\ stack = <<"wait">> /\ ctl = "run"
    /\ wt.statuses = <<"processing", "pending", "processing">>
    /\ wt.slept = <<10, 10, 10>>

\* ----------------------------------------------------------- SpecImages
\* _pptx_to_heygen_images called on a pipeline object whose accumulator is
\* empty (a fresh object) or already holds an asset of an earlier call.
InitImages ==
    /\ stack = <<"images">> /\ ctl = "run"
    /\ retval = NoValue /\ exc = NoExc
    /\ retry_times = DefaultRetryTimes
    /\ slide_asset_ids \in {<<>>, <<Handle(0, 1)>>}
    /\ \E n \in 0..MaxSlides : im = ImEnter(1, n, slide_asset_ids)
    /\ rq = RqIdle /\ wt = WtIdle /\ ng = NgIdle /\ cr = CrIdle /\ cv = CvIdle
    /\ tempfiles = {} /\ env = EnvAny /\ hist = <<>>
    /\ self = Constructed(env.getenv)

NextImages ==
    \/ RenderSlide \/ UploadCall \/ Attempt \/ UploadReturn \/ Unwind
    \/ SlideUploaded \/ SlideFailed \/ ImagesReturn

SpecImages == InitImages /\ [][NextImages]_vars

\* The handles of the slides lo..n that are not in F, in ascending order.
RECURSIVE HandlesOfSurvivors(_, _, _, _)
HandlesOfSurvivors(c, lo, n, F) ==
    IF lo > n THEN <<>>
    ELSE (IF lo \in F THEN <<>> ELSE <<Handle(c, lo)>>)
         \o HandlesOfSurvivors(c, lo + 1, n, F)

\* C4: from an empty accumulator, for every set F of slides whose render,
\* empty-image check or upload fails, _pptx_to_heygen_images never raises,
\* attempts every index 1..n in ascending order and leaves exactly the
\* handles of the slides not in F, in ascending slide order (n - |F| of them).
C4_FailedSlidesSkippedOrderKept ==
    im.before = <<>> =>
        /\ im.st # "raised"
        /\ \A j \in 1..Len(im.attempted) : im.attempted[j] = j
        /\ im.st = "returned" =>
              /\ ctl = "ret" /\ exc = NoExc /\ stack = <<>>
              /\ Len(im.attempted) = im.slide_count
              /\ im.failed \subseteq 1..im.slide_count
              /\ Len(slide_asset_ids) = im.slide_count - Cardinality(im.failed)
              /\ slide_asset_ids =
                    HandlesOfSurvivors(im.call, 1, im.slide_count, im.failed)

\* Five slides, the third fails: the assets of slides 1, 2, 4, 5 remain.
C4_Witness ==
    /\ im.st = "returned" /\ im.before = <<>>
    /\ im.slide_count = 5 /\ im.failed = {3}
    /\ slide_asset_ids = <<Handle(1, 1), Handle(1, 2), Handle(1, 4), Handle(1, 5)>>

\* The iteration of slide im.slide_idx is past its render and not over: the
\* upload is running, or has just returned or raised.
SlideInProgress ==
    \/ \E k \in 1..Len(stack) : stack[k] = "upload"
    \/ (stack # <<>> /\ Top = "images" /\ ctl # "run")

\* C17: a temporary file never outlives the iteration of its slide: on every
\* exit path of an iteration (success, empty image, read error, upload error)
\* the file the render produced is removed before the next render starts
\* and before _pptx_to_heygen_images returns; only files a render produced
\* are removed, so nothing is removed when the render itself fails.
C17_TempFilesCleaned ==
    im.st # "idle" =>
        /\ im.removed \subseteq im.made
        /\ im.made \subseteq {im.attempted[j] : j \in 1..Len(im.attempted)}
        /\ SlideInProgress =>
              (tempfiles = {im.slide_idx} /\ im.made = im.removed \cup {im.slide_idx})
        /\ ~SlideInProgress => (tempfiles = {} /\ im.removed = im.made)
        /\ im.st = "returned" => (tempfiles = {} /\ ~SlideInProgress)

\* Three slides: the render of slide 1 fails (no file, nothing removed),
\* slide 2 fails after its render, slide 3 succeeds: both files are removed.
C17_Witness ==
    /\ im.st = "returned" /\ im.attempted = <<1, 2, 3>>
    /\ im.failed = {1, 2}
    /\ im.made = {2, 3} /\ im.removed = {2, 3}
    /\ tempfiles = {}

\* ------------------------------------------------------------ SpecNotes
\* _generate_speaker_notes called with every list of up to MaxTexts texts
\* drawn from: empty, whitespace only, a short text with spaces around it,
\* a text of exactly 50 characters and one of 51.
Fifty == [i \in 1..FallbackChars |-> "x"]

SlideTextSamples ==
    {<<>>, <<" ", "\n">>, <<" ", "b", " ">>, Fifty, Fifty \o <<"y">>}

TextLists == UNION {[1..n -> SlideTextSamples] : n \in 0..MaxTexts}

InitNotes ==
    /\ stack = <<"notes">> /\ ctl = "run"
    /\ retval = NoValue /\ exc = NoExc
    /\ retry_times = DefaultRetryTimes
    /\ slide_asset_ids = <<>>
    /\ \E texts \in TextLists : ng = NgEnter(texts)
    /\ rq = RqIdle /\ wt = WtIdle /\ im = ImIdle /\ cr = CrIdle /\ cv = CvIdle
    /\ tempfiles = {} /\ env = EnvAny /\ hist = <<>>
    /\ self = Constructed(env.getenv)

NextNotes == NoteStep \/ NotesReturn

SpecNotes == InitNotes /\ [][NextNotes]_vars

\* t is s without its leading and trailing whitespace.
IsTrimOf(t, s) ==
    \E a \in 0..Len(s) :
        /\ a + Len(t) <= Len(s)
        /\ SubSeq(s, a + 1, a + Len(t)) = t
        /\ \A j \in (1..a) \cup ((a + Len(t) + 1)..Len(s)) : s[j] \in {" ", "\n"}
        /\ t # <<>> => (t[1] \notin {" ", "\n"} /\ t[Len(t)] \notin {" ", "\n"})

\* The language-model call issued for position i, if any.
LlmCallsAt(i) == {j \in 1..Len(ng.llm) : ng.llm[j].pos = i}

\* C10: _generate_speaker_notes never raises and returns one string per
\* input in input order: the placeholder naming i for a blank input i, the
\* trimmed completion when the call for i succeeds, the fallback (prefix plus
\* at most the first 50 characters of input i) when it fails; what happens at
\* one position does not change any other position.
C10_OneNotePerInput ==
    /\ ng.st # "raised"
    /\ ng.st = "running" => Len(ng.notes) = ng.idx - 1
    /\ ng.st = "returned" =>
          /\ ctl = "ret" /\ exc = NoExc
          /\ retval = [kind |-> "notes", notes |-> ng.notes]
          /\ Len(ng.notes) = Len(ng.texts)
    /\ \A i \in 1..Len(ng.notes) :
          LET text == ng.texts[i]
              note == ng.notes[i] IN
          IF \A j \in 1..Len(text) : text[j] \in {" ", "\n"}
          THEN note = <<"slide#", Digits[i], ":shows-an-image">>
          ELSE \E j \in LlmCallsAt(i) :
                 IF ng.llm[j].ok
                 THEN IsTrimOf(note, ng.llm[j].content)
                 ELSE /\ Len(note) = 4 + (IF Len(text) < 50 THEN Len(text) ELSE 50)
                      /\ SubSeq(note, 1, 3) = <<"slide#", Digits[i], ":content:">>
                      /\ \A c \in 1..(Len(note) - 4) : note[3 + c] = text[c]
                      /\ note[Len(note)] = "..."

\* Three inputs: blank, a failed call on a 51-character text, a padded
\* completion: placeholder, truncated fallback, trimmed completion.
C10_Witness ==
    /\ ng.st = "returned"
    /\ ng.texts = <<<<" ", "\n">>, Fifty \o <<"y">>, <<" ", "b", " ">>>>
    /\ ng.notes[1] = <<"slide#", "1", ":shows-an-image">>
    /\ ng.notes[2] = <<"slide#", "2", ":content:">> \o Fifty \o <<"...">>
    /\ ng.notes[3] = <<"narration:", " ", "b">>

\* The positions 1..upto of texts holding a character that is not whitespace.
NonBlankPositions(texts, upto) ==
    {i \in 1..upto : \E j \in 1..Len(texts[i]) : texts[i][j] \notin {" ", "\n"}}

\* C11: _generate_speaker_notes issues language-model calls exactly for the
\* non-blank inputs, one per non-blank input and in input order, each with
\* that input as its prompt: the number of calls equals the number of
\* non-blank inputs, and no call is issued for a blank or whitespace-only one.
C11_LlmCallsOnlyForNonBlank ==
    LET done == Len(ng.notes)
        nonblank == NonBlankPositions(ng.texts, done) IN
    /\ ng.st = "returned" => done = Len(ng.texts)
    /\ Len(ng.llm) = Cardinality(nonblank)
    /\ \A j \in 1..Len(ng.llm) :
          /\ ng.llm[j].pos \in nonblank
          /\ ng.llm[j].prompt = ng.texts[ng.llm[j].pos]
    /\ \A j \in 1..Len(ng.llm), k \in 1..Len(ng.llm) :
          j < k => ng.llm[j].pos < ng.llm[k].pos

\* Three inputs: text, empty, text: two calls, for positions 1 and 3.
C11_Witness ==
    /\ ng.st = "returned"
    /\ ng.texts = <<<<" ", "b", " ">>, <<>>, Fifty>>
    /\ Len(ng.llm) = 2
    /\ ng.llm[1].pos = 1 /\ ng.llm[2].pos = 3
    /\ ng.notes[2] = <<"slide#", "2", ":shows-an-image">>

\* ------------------------------------------------------------ SpecBuild
\* _create_heygen_video called with every list of up to MaxTexts notes on
\* an object holding up to MaxSlides assets.
NoteSamples == {<<"narration:", "a">>, <<"slide#", "1", ":shows-an-image">>}

NoteLists == UNION {[1..k -> NoteSamples] : k \in 0..MaxTexts}

AssetLists == {[i \in 1..a |-> Handle(0, i)] : a \in 0..MaxSlides}

InitBuild ==
    /\ stack = <<"create">> /\ ctl = "run"
    /\ retval = NoValue /\ exc = NoExc
    /\ retry_times = DefaultRetryTimes
    /\ slide_asset_ids \in AssetLists
    /\ \E notes \in NoteLists : cr = CrEnter(1, notes, "title")
    /\ rq = RqIdle /\ wt = WtIdle /\ im = ImIdle /\ ng = NgIdle /\ cv = CvIdle
    /\ tempfiles = {} /\ env = EnvAny /\ hist = <<>>
    /\ self = Constructed(env.getenv)

NextBuild == CreateSubmit \/ Attempt \/ CreateReturn \/ Unwind

SpecBuild == InitBuild /\ [][NextBuild]_vars

\* C9: for k narrations and a assets the payload has exactly k scenes in
\* narration order, scene i speaks narration i, and its background is the
\* image of asset i when i < a (0-based) and solid white when i >= a.
C9_ScenesFollowNarrations ==
    cr.built =>
        LET scenes == cr.payload.video_inputs
            k == Len(cr.notes)
            a == Len(slide_asset_ids) IN
        /\ Len(scenes) = k
        /\ \A i \in 1..k :
              /\ scenes[i].voice.input_text = cr.notes[i]
              /\ i <= a => scenes[i].background =
                             [type |-> "image", image_asset_id |-> slide_asset_ids[i]]
              /\ i > a => scenes[i].background =
                             [type |-> "color", value |-> "#FFFFFF"]

\* Three narrations and two assets: image, image, white.
C9_Witness ==
    /\ cr.built
    /\ Len(cr.notes) = 3 /\ Len(slide_asset_ids) = 2
    /\ cr.payload.video_inputs[1].background.type = "image"
    /\ cr.payload.video_inputs[2].background.image_asset_id = Handle(0, 2)
    /\ cr.payload.video_inputs[3].background.type = "color"

\* ---------------------------------------------------------- SpecConvert
\* convert called on a constructed pipeline object, in three kinds of run:
\*  - one call on a deck of up to MaxDeck slides, with any max_slides, in
\*    which the rasterisation and the upload of a slide may fail in every way;
\*  - one call on a deck of up to three slides in which the slides render, and
\*    the network, the language model and the remote job may fail;
\*  - two calls on the same object on decks of up to three slides, where only
\*    the rendering of a slide may fail.
ConvertRuns ==
    {[EnvAny EXCEPT !.transport = {"2xx", "HTTPError"},
                    !.llm = {"completion"}, !.statuses = {"completed"},
                    !.titles = {Absent}],
     [EnvAny EXCEPT !.render = {"ok"}, !.transport = {"2xx", "Timeout"},
                    !.llm = {"padded_completion", "api_error"},
                    !.statuses = {"processing", "success", "error"},
                    !.max_slides = {Absent, Given(2)}, !.decks = (-1)..3],
     [EnvAny EXCEPT !.transport = {"2xx"}, !.malformed = FALSE,
                    !.render = {"render_error", "ok"}, !.llm = {"completion"},
                    !.statuses = {"completed"}, !.calls = 2,
                    !.max_slides = {Absent, Given(2)}, !.decks = (-1)..3]}

InitConvert ==
    /\ stack = <<>> /\ ctl = "idle"
    /\ retval = NoValue /\ exc = NoExc
    /\ retry_times = DefaultRetryTimes
    /\ slide_asset_ids = <<>>
    /\ rq = RqIdle /\ wt = WtIdle /\ im = ImIdle /\ ng = NgIdle /\ cr = CrIdle
    /\ cv = CvIdle
    /\ tempfiles = {} /\ hist = <<>>
    /\ env \in ConvertRuns
    /\ self = Constructed(env.getenv)

NextConvert ==
    \/ ConvertCall \/ ConvertAfterImages \/ ConvertAfterNotes
    \/ ConvertAfterCreate \/ ConvertAfterWait
    \/ RenderSlide \/ UploadCall \/ UploadReturn \/ SlideUploaded \/ SlideFailed
    \/ ImagesReturn \/ NoteStep \/ NotesReturn \/ CreateSubmit \/ CreateReturn
    \/ WaitQuery \/ WaitStatus \/ Attempt \/ Unwind

SpecConvert == InitConvert /\ [][NextConvert]_vars

\* note is a narration _generate_speaker_notes can produce from text: a
\* stripped completion for it, or the fallback or placeholder of a position.
GeneratedFrom(note, text) ==
    \/ \E o \in {"completion", "padded_completion"} : note = Strip(Completion(o, text))
    \/ \E j \in 1..Len(Digits) : note = Fallback(j, text)
    \/ IsBlank(text) /\ \E j \in 1..Len(Digits) : note = Placeholder(j)

\* C5: in every job convert submits, each scene's narration was generated
\* from the raw text of the original slide whose image is that scene's
\* background, whatever slides failed rasterisation or upload.
C5_SceneNarrationMatchesImage ==
    (cv.st # "idle" /\ cr.built) =>
        \A i \in 1..Len(cr.payload.video_inputs) :
            LET scene == cr.payload.video_inputs[i] IN
            scene.background.type = "image" =>
                /\ scene.background.image_asset_id.slide \in 1..Len(cv.deck)
                /\ GeneratedFrom(scene.voice.input_text,
                                 cv.deck[scene.background.image_asset_id.slide])

\* C6: two convert calls on the same object with identical inputs, in which
\* the same slides fail, return the same slides_processed and title.
C6_ConvertIdempotent ==
    (/\ cv.st = "returned" /\ cv.call = 2
     /\ hist[1].outcome = "returned"
     /\ hist[1].deck = cv.deck /\ hist[1].title = cv.title
     /\ hist[1].max_slides = cv.max_slides
     /\ hist[1].failed = im.failed) =>
        /\ retval.slides_processed = hist[1].result.slides_processed
        /\ retval.title = hist[1].result.title

\* The rasterisation step of the current call is over and added no asset.
NoAssetProduced ==
    /\ cv.st # "idle" /\ im.st = "returned" /\ im.call = cv.call
    /\ slide_asset_ids = cv.before

\* C7: a convert call whose rasterisation step produces no asset fails with
\* the no-slides-converted error and asks for no narration, submits no job
\* and polls no status; on every call, not only the first.
C7_NoAssetsNoJob ==
    NoAssetProduced =>
        /\ ng.st = "idle" /\ cr.st = "idle" /\ wt.st = "idle"
        /\ cv.st # "returned"
        /\ cv.st = "raised" =>
              exc = [type |-> "RuntimeError", msg |-> "no slides converted"]

\* C8: on a fresh object, for a deck of n >= 1 slides and max_slides = m >= 1
\* (or absent), convert rasterises exactly the slides 1..min(m, n) (1..n);
\* when no slide fails it asks narrations for exactly those slides and
\* returns slides_processed = min(m, n) (n).
C8_MaxSlidesTruncates ==
    (/\ cv.st # "idle" /\ cv.call = 1 /\ Len(cv.deck) >= 1
     /\ cv.max_slides.given => cv.max_slides.value >= 1) =>
        LET n == Len(cv.deck)
            want == IF cv.max_slides.given /\ cv.max_slides.value < n
                    THEN cv.max_slides.value ELSE n IN
        /\ im.st # "idle"
        /\ \A j \in 1..Len(im.attempted) : im.attempted[j] = j
        /\ Len(im.attempted) <= want
        /\ im.st = "returned" => Len(im.attempted) = want
        /\ (im.st = "returned" /\ im.failed = {} /\ ng.st # "idle") =>
              ng.texts = [j \in 1..want |-> cv.deck[j]]
        /\ (cv.st = "returned" /\ im.failed = {}) =>
              /\ retval.kind = "result"
              /\ retval.slides_processed = want

\* max_slides = 2 on a five-slide deck: slides 1-2, slides_processed = 2.
C8_Witness ==
    /\ cv.st = "returned" /\ cv.call = 1
    /\ Len(cv.deck) = 5 /\ cv.max_slides = Given(2)
    /\ im.attempted = <<1, 2>> /\ im.failed = {}
    /\ retval.slides_processed = 2

\* The wait of the running convert call is between two polls: the last
\* status reported was not terminal and the sleep that follows it is due.
PendingBetweenPolls ==
    /\ cv.st = "running" /\ stack # <<>> /\ Top = "wait" /\ ctl = "run"
    /\ wt.st = "running" /\ wt.statuses # <<>>
    /\ wt.polls < MaxPolls

\* A step of the program after which the wait is over.
WaitEnds == NextConvert /\ wt'.st # "running"

\* C13: the polling wait is cancelable: in every state in which the wait is
\* pending between polls, a step is possible that ends the wait without the
\* remote job having reported a terminal status.
C13_PollCancelable == PendingBetweenPolls => ENABLED WaitEnds

\* C14: in every convert call the steps run in the order fetch, parse,
\* rasterise all, narrate, submit, await: uploads only before any narration,
\* the submission only after the narrations returned, status polls only
\* after the submission returned this call's job id.  When a step fails
\* fatally (deck not found, empty deck, no asset produced, submission failed,
\* wait failed) convert raises, returns no result, and no later step starts.
C14_StepsInOrderFatalErrorsStop ==
    cv.st # "idle" =>
        /\ ng.st # "idle" => im.st = "returned"
        /\ cr.st # "idle" => ng.st = "returned"
        /\ wt.st # "idle" => (cr.st = "returned" /\ cv.video_id = [job |-> cv.call])
        /\ (rq.st # "idle" /\ rq.purpose = "upload") =>
              (im.st = "running" /\ ng.st = "idle" /\ cr.st = "idle" /\ wt.st = "idle")
        /\ (rq.st # "idle" /\ rq.purpose = "create") =>
              (cr.st = "running" /\ wt.st = "idle")
        /\ (rq.st # "idle" /\ rq.purpose = "status") => wt.st = "running"
        /\ cv.st = "returned" =>
              (wt.st = "returned" /\ ctl = "ret" /\ retval.kind = "result")
        /\ cv.st = "raised" => (ctl = "exc" /\ stack = <<>> /\ retval.kind # "result")
        /\ cv.deck = <<>> =>
              (cv.st = "raised" /\ im.st = "idle" /\ ng.st = "idle" /\ cr.st = "idle"
               /\ wt.st = "idle")
        /\ NoAssetProduced =>
              (ng.st = "idle" /\ cr.st = "idle" /\ wt.st = "idle" /\ cv.st # "returned")
        /\ cr.st = "raised" => (wt.st = "idle" /\ cv.st # "returned")
        /\ wt.st = "raised" => cv.st # "returned"

\* C15: a 2xx response is never retried, whatever its body says.  No attempt
\* follows a 2xx attempt; the caller gets the 2xx response after as many
\* requests as transport failures came before it plus one.  A 2xx upload
\* response without an asset id makes the upload raise the no-asset-id error
\* with no further request for that slide; a 2xx creation response without a
\* job id makes the creation raise with no further submission; a 2xx status
\* response reporting failed / error ends the wait at that poll.
C15_SuccessResponseNeverRetried ==
    /\ \A i \in 1..Len(rq.outcomes) :
          rq.outcomes[i] = "2xx" => (i = Len(rq.outcomes) /\ rq.st = "returned")
    /\ (stack # <<>> /\ ctl = "ret" /\ retval.kind = "response") =>
          /\ rq.st = "returned"
          /\ retval.attempt = Len(rq.outcomes)
          /\ \A i \in 1..(retval.attempt - 1) : rq.outcomes[i] # "2xx"
    /\ (rq.st # "idle" /\ rq.purpose = "upload") => rq.tag.slide \notin im.failed
    /\ (rq.st # "idle" /\ rq.purpose = "create") => cr.st = "running"
    /\ (rq.st # "idle" /\ rq.purpose = "status") =>
          (wt.st = "running" /\ rq.tag.poll = Len(wt.statuses) + 1)
    /\ (ctl = "exc" /\ exc = [type |-> "RuntimeError", msg |-> "no asset id"]) =>
          /\ retval.kind = "response"
          /\ retval.body = [data |-> TRUE, hasId |-> FALSE]
          /\ rq.st = "idle"
          /\ Top = "images" /\ im.slide_idx \notin im.failed
    /\ (ctl = "exc" /\ exc = [type |-> "RuntimeError", msg |-> "no video id"]) =>
          /\ retval.kind = "response"
          /\ retval.body = [data |-> TRUE, hasId |-> FALSE]
          /\ rq.st = "idle" /\ cr.st = "raised" /\ wt.st = "idle"
    /\ \A i \in 1..Len(wt.statuses) :
          wt.statuses[i] \in {"failed", "error"} =>
              /\ i = Len(wt.statuses) /\ wt.polls = i
              /\ wt.st = "raised" /\ rq.st = "idle"
              /\ ctl = "exc"
              /\ exc = [type |-> "RuntimeError", msg |-> "video generation failed"]
              /\ retval.kind = "response" /\ retval.body.status = wt.statuses[i]

\* The first upload request of slide 1 is answered 2xx without an asset id:
\* the upload fails after that one request.
C15_Witness ==
    /\ ctl = "exc" /\ exc = [type |-> "RuntimeError", msg |-> "no asset id"]
    /\ stack = <<"convert", "images">> /\ im.slide_idx = 1
    /\ retval.kind = "response" /\ retval.attempt = 1
    /\ rq.st = "idle"

\* C16: in every convert call, when the job is built there are as many
\* narrations as assets the builder reads, so every scene has the image of
\* the asset at its position as background and no asset is left without a
\* scene; slides_processed is that common count.
C16_NarrationsMatchAssets ==
    (cv.st # "idle" /\ cr.built) =>
        LET scenes == cr.payload.video_inputs
            a == Len(slide_asset_ids) IN
        /\ Len(cr.notes) = a
        /\ Len(scenes) = a
        /\ \A i \in 1..Len(scenes) :
              i <= a => scenes[i].background =
                          [type |-> "image", image_asset_id |-> slide_asset_ids[i]]
        /\ cv.st = "returned" => retval.slides_processed = a

\* C19: on a fresh object, for every max_slides = m >= 0 and every deck of
\* n >= 1 slides, convert attempts the rasterisation of at most m slides; with
\* m = 0 it rasterises none and fails with the no-slides-converted error.
C19_MaxSlidesBoundsWork ==
    (/\ cv.st # "idle" /\ cv.call = 1 /\ Len(cv.deck) >= 1
     /\ cv.max_slides.given /\ cv.max_slides.value >= 0) =>
        /\ Len(im.attempted) <= cv.max_slides.value
        /\ (cv.max_slides.value = 0 /\ cv.st # "running") =>
              /\ cv.st = "raised"
              /\ exc = [type |-> "RuntimeError", msg |-> "no slides converted"]

\* -------------------------------------------------------- SpecConstruct
\* PPTXToHeyGenVideo(storage_manager) in every process environment: each of
\* the six required keys unset, set to the empty string or set to a value.
InitConstruct ==
    /\ stack = <<>> /\ ctl = "idle"
    /\ retval = NoValue /\ exc = NoExc
    /\ retry_times = 0 /\ slide_asset_ids = <<>>   \* not attributes yet
    /\ rq = RqIdle /\ wt = WtIdle /\ im = ImIdle /\ ng = NgIdle /\ cr = CrIdle
    /\ cv = CvIdle
    /\ tempfiles = {} /\ hist = <<>>
    /\ env \in {[EnvAny EXCEPT !.getenv = e] : e \in OsEnvs}
    /\ self = NoAttrs

NextConstruct == Construct

SpecConstruct == InitConstruct /\ [][NextConstruct]_vars

\* The required keys the process environment does not set.
UnsetKeys == {k \in Keys : ~env.getenv[k].given}

\* C12: constructing the pipeline with exactly one required key missing (the
\* others set to a value) ends in a configuration error whose message names
\* that key, and no API client is initialised.
C12_MissingKeyNamed ==
    (/\ ctl # "idle" /\ Cardinality(UnsetKeys) = 1
     /\ \A k \in Keys \ UnsetKeys : env.getenv[k] = Given("secret")) =>
        /\ ctl = "exc"
        /\ exc.type = "ValueError"
        /\ exc.msg \in UnsetKeys
        /\ {"openai_client", "heygen_headers", "aspose_slides_api"}
              \cap DOMAIN self = {}

\* C20: with every required key present and non-empty, construction raises
\* nothing and ends with retry_times = 3, poll_interval = 10, the output
\* dimension 1280x720 and an empty slide-asset accumulator.
C20_ConstructionSucceeds ==
    (ctl # "idle" /\ \A k \in Keys : ~Falsy(env.getenv[k])) =>
        /\ ctl = "ret" /\ exc = NoExc
        /\ retry_times = 3
        /\ slide_asset_ids = <<>>
        /\ {"poll_interval", "video_size"} \subseteq DOMAIN self
        /\ self.poll_interval = 10
        /\ self.video_size = [width |-> 1280, height |-> 720]
====
